---- MODULE Spec2Model ----
(***************************************************************************)
(* SenseNote content script (src/popup.js, second IIFE, lines 575-1433):   *)
(* text highlighting on a page.  The document body is modelled as the      *)
(* sequence of its tokens in document order (characters, element start and *)
(* end tags); a text node is a maximal run of character tokens, so the     *)
(* tree is the one the balanced tags describe.  A DOM boundary point is a  *)
(* gap g in 0..Len(doc): the place between token g and token g+1.          *)
(***************************************************************************)
EXTENDS Integers, Sequences, FiniteSets, TLC

\* ------------------------------------------------------------- tokens

Ch(c) == [k |-> "ch", c |-> c, id |-> 0]
Open(tag) == [k |-> "open", c |-> tag, id |-> 0]
Close(tag) == [k |-> "close", c |-> tag, id |-> 0]
\* the wrapper element: span.mark2link-highlight[data-highlight-id=id]
WOpen(id) == [k |-> "open", c |-> "w", id |-> id]
WClose(id) == [k |-> "close", c |-> "w", id |-> id]

IsCh(t) == t.k = "ch"
IsWrapperOpen(t) == t.k = "open" /\ t.c = "w"

\* a string is a sequence of one-character strings
Str(toks) == [i \in 1..Len(toks) |-> toks[i].c]
Toks(s) == [i \in 1..Len(s) |-> Ch(s[i])]

Min(a, b) == IF a < b THEN a ELSE b
Max(a, b) == IF a > b THEN a ELSE b

Reverse(s) == [i \in 1..Len(s) |-> s[Len(s) + 1 - i]]

\* String.prototype.substring(a, b) on 0-based offsets, a <= b within bounds
Substring(s, a, b) == SubSeq(s, a + 1, b)

\* String.prototype.indexOf: leftmost 0-based position, or -1
IndexOf(hay, needle) ==
  LET hits == {i \in 0..(Len(hay) - Len(needle)) :
                 SubSeq(hay, i + 1, i + Len(needle)) = needle}
  IN IF hits = {} THEN -1 ELSE CHOOSE i \in hits : \A j \in hits : i <= j

\* String.prototype.trim, the only white space of the model being " "
RECURSIVE TrimLeft(_)
TrimLeft(s) == IF s # <<>> /\ Head(s) = " " THEN TrimLeft(Tail(s)) ELSE s
Trim(s) == Reverse(TrimLeft(Reverse(TrimLeft(s))))

\* ------------------------------------------------------------- the tree

\* what the tokens a+1..b do to the open tags before them: they close the
\* last 'pops' of them, then open 'pushes'
RECURSIVE StackOver(_, _, _)
StackOver(d, a, b) ==
  IF a >= b THEN [pops |-> 0, pushes |-> <<>>]
  ELSE IF b = a + 1
       THEN IF d[b].k = "open" THEN [pops |-> 0, pushes |-> <<d[b]>>]
            ELSE IF d[b].k = "close" THEN [pops |-> 1, pushes |-> <<>>]
            ELSE [pops |-> 0, pushes |-> <<>>]
       ELSE LET m == (a + b) \div 2
                l == StackOver(d, a, m)
                r == StackOver(d, m, b)
            IN [pops |-> l.pops + Max(0, r.pops - Len(l.pushes)),
                pushes |-> SubSeq(l.pushes, 1, Len(l.pushes) - r.pops) \o r.pushes]

\* the open tags of the elements that enclose gap g, outermost first
StackAt(d, g) == StackOver(d, 0, g).pushes

\* node.parentElement.classList.contains('mark2link-highlight') for the text
\* node whose first character is token i
ParentIsWrapper(d, i) ==
  LET s == StackAt(d, i - 1)
  IN s # <<>> /\ IsWrapperOpen(s[Len(s)])

\* the text nodes of the body in document order, each [from, to] token indices
TextNodesOf(d) ==
  LET starts == {i \in 1..Len(d) : IsCh(d[i]) /\ (i = 1 \/ ~IsCh(d[i - 1]))}
      EndOf(i) == CHOOSE j \in i..Len(d) :
                    /\ \A m \in i..j : IsCh(d[m])
                    /\ (j = Len(d) \/ ~IsCh(d[j + 1]))
      RECURSIVE Build(_)
      Build(S) == IF S = {} THEN <<>>
                  ELSE LET i == CHOOSE x \in S : \A y \in S : x <= y
                       IN <<[from |-> i, to |-> EndOf(i)]>> \o Build(S \ {i})
  IN Build(starts)

NodeText(d, n) == Str(SubSeq(d, n.from, n.to))

\* the ids of the wrapper elements of the document, one entry per element
WrapperIds(d) == {d[i].id : i \in {j \in 1..Len(d) : IsWrapperOpen(d[j])}}
WrapperCount(d, id) == Cardinality({i \in 1..Len(d) : d[i] = WOpen(id)})
\* document.querySelector('[data-highlight-id="id"]'): first in document order
QueryWrapper(d, id) ==
  LET hits == {i \in 1..Len(d) : d[i] = WOpen(id)}
  IN IF hits = {} THEN 0 ELSE CHOOSE i \in hits : \A j \in hits : i <= j

\* ------------------------------------------------------------- ranges

\* a Range as its two boundary points, s <= e; NoRange is null
NoRange == [s |-> 0 - 1, e |-> 0 - 1]
\* the gap of the boundary point (text node n, offset off)
GapOf(n, off) == n.from - 1 + off
\* Range.prototype.toString: the data of every text node inside the range
RangeToString(d, r) == Str(SelectSeq(SubSeq(d, r.s + 1, r.e), IsCh))

\* ------------------------------------------------------------- linearizer

\* acceptNode of the restoration walker
AcceptRestore(d, n) ==
  ~(Trim(NodeText(d, n)) = <<>> \/ ParentIsWrapper(d, n.from))

\* acceptNode of the capture walker
AcceptCapture(d, n) == ~(Trim(NodeText(d, n)) = <<>>)

RECURSIVE BuildRunsFromZero(_, _, _)
BuildRunsFromZero(d, nodes, fullText) ==
  IF nodes = <<>> THEN <<>>
  ELSE LET n == Head(nodes)
           nodeText == NodeText(d, n)
           startOffset == 0
       IN <<[node |-> n, startOffset |-> startOffset,
             endOffset |-> startOffset + Len(nodeText), text |-> nodeText]>>
          \o BuildRunsFromZero(d, Tail(nodes), fullText \o nodeText)

\* the while loop over walker.nextNode(): one run per accepted text node
RECURSIVE BuildRuns(_, _, _)
BuildRuns(d, nodes, fullText) ==
  IF nodes = <<>> THEN <<>>
  ELSE LET n == Head(nodes)
           nodeText == NodeText(d, n)
           startOffset == Len(fullText)
       IN <<[node |-> n, startOffset |-> startOffset,
             endOffset |-> startOffset + Len(nodeText), text |-> nodeText]>>
          \o BuildRuns(d, Tail(nodes), fullText \o nodeText)

RestoreRuns(d) ==
  BuildRuns(d, SelectSeq(TextNodesOf(d), LAMBDA n : AcceptRestore(d, n)), <<>>)
CaptureRuns(d) ==
  BuildRuns(d, SelectSeq(TextNodesOf(d), LAMBDA n : AcceptCapture(d, n)), <<>>)

\* fullText after the loop: the accepted nodes' text, concatenated
RECURSIVE FullTextOf(_)
FullTextOf(runs) ==
  IF runs = <<>> THEN <<>> ELSE Head(runs).text \o FullTextOf(Tail(runs))

\* ------------------------------------------------------------- resolver

\* searchIndex with the bare text looked for first and the context pattern
\* only when the text is missing
SearchIndexBareFirst(fullText, searchText, textBefore, textAfter) ==
  LET contextPattern == textBefore \o searchText \o textAfter
      patternIndex == IndexOf(fullText, contextPattern)
  IN IF IndexOf(fullText, searchText) # -1 THEN IndexOf(fullText, searchText)
     ELSE IF patternIndex # -1 THEN patternIndex + Len(textBefore)
     ELSE 0 - 1

\* searchIndex without the fallback to the bare text
SearchIndexNoFallback(fullText, searchText, textBefore, textAfter) ==
  LET contextPattern == textBefore \o searchText \o textAfter
      patternIndex == IndexOf(fullText, contextPattern)
  IN IF patternIndex # -1 THEN patternIndex + Len(textBefore) ELSE 0 - 1

\* searchIndex of findTextWithContext: the context pattern first, then the
\* bare text; -1 when neither occurs
SearchIndex(fullText, searchText, textBefore, textAfter) ==
  LET contextPattern == textBefore \o searchText \o textAfter
      patternIndex == IndexOf(fullText, contextPattern)
  IN IF (textBefore # <<>> \/ textAfter # <<>>) /\ patternIndex # -1
     THEN patternIndex + Len(textBefore)
     ELSE IndexOf(fullText, searchText)

\* the loop over textNodes that maps targetStart to (startNode, startNodeOffset)
StartPoint(runs, targetStart) ==
  LET hits == {i \in 1..Len(runs) : targetStart >= runs[i].startOffset
                                      /\ targetStart < runs[i].endOffset}
  IN IF hits = {} THEN 0 - 1
     ELSE LET i == CHOOSE x \in hits : \A y \in hits : x <= y
          IN GapOf(runs[i].node, targetStart - runs[i].startOffset)

EndPointHalfOpen(runs, targetEnd) ==
  LET hits == {i \in 1..Len(runs) : targetEnd >= runs[i].startOffset
                                      /\ targetEnd < runs[i].endOffset}
  IN IF hits = {} THEN 0 - 1
     ELSE LET i == CHOOSE x \in hits : \A y \in hits : x <= y
          IN GapOf(runs[i].node, targetEnd - runs[i].startOffset)

\* the same loop for targetEnd and (endNode, endNodeOffset)
EndPoint(runs, targetEnd) ==
  LET hits == {i \in 1..Len(runs) : targetEnd > runs[i].startOffset
                                      /\ targetEnd <= runs[i].endOffset}
  IN IF hits = {} THEN 0 - 1
     ELSE LET i == CHOOSE x \in hits : \A y \in hits : x <= y
          IN GapOf(runs[i].node, targetEnd - runs[i].startOffset)

\* the range returned without the final verification
VerifyNothing(d, range, searchText) == range

\* the final verification: the range's text must be the searched text
Verify(d, range, searchText) ==
  IF RangeToString(d, range) = searchText THEN range ELSE NoRange

FindTextWithContext(d, searchText, textBefore, textAfter) ==
  IF searchText = <<>> THEN NoRange
  ELSE LET runs == RestoreRuns(d)
           fullText == FullTextOf(runs)
           searchIndex == SearchIndex(fullText, searchText, textBefore, textAfter)
       IN IF searchIndex = -1 THEN NoRange
          ELSE LET s == StartPoint(runs, searchIndex)
                   e == EndPoint(runs, searchIndex + Len(searchText))
               IN IF s # -1 /\ e # -1
                  THEN Verify(d, [s |-> s, e |-> e], searchText)
                  ELSE NoRange

\* skips an Anchor whose wrapper is already in the document
CreateRangeFromHighlight(d, h) ==
  IF QueryWrapper(d, h.id) # 0 THEN NoRange
  ELSE FindTextWithContext(d, h.text, h.textBefore, h.textAfter)

\* ------------------------------------------------------------- wrapper

\* the tags of a slice of the document that have no partner inside the slice:
\* the elements the range contains only partially.  closers: end tags whose
\* start tag lies before the slice (innermost first); openers: start tags
\* whose end tag lies after it (outermost first)
RECURSIVE Unmatched(_, _, _)
Unmatched(slice, openers, closers) ==
  IF slice = <<>> THEN [openers |-> openers, closers |-> closers]
  ELSE LET t == Head(slice)
       IN IF t.k = "open" THEN Unmatched(Tail(slice), Append(openers, t), closers)
          ELSE IF t.k = "close"
          THEN IF openers # <<>>
               THEN Unmatched(Tail(slice), SubSeq(openers, 1, Len(openers) - 1), closers)
               ELSE Unmatched(Tail(slice), openers, Append(closers, t))
          ELSE Unmatched(Tail(slice), openers, closers)

AsOpen(toks) == [i \in 1..Len(toks) |-> [toks[i] EXCEPT !.k = "open"]]
AsClose(toks) == [i \in 1..Len(toks) |-> [toks[i] EXCEPT !.k = "close"]]

\* Range.surroundContents throws when the range partially contains an element
SurroundThrows(d, r) ==
  LET u == Unmatched(SubSeq(d, r.s + 1, r.e), <<>>, <<>>)
  IN u.openers # <<>> \/ u.closers # <<>>

\* workingRange.surroundContents(span): the range's content moves into span
SurroundContents(d, r, id) ==
  SubSeq(d, 1, r.s) \o <<WOpen(id)>> \o SubSeq(d, r.s + 1, r.e)
    \o <<WClose(id)>> \o SubSeq(d, r.e + 1, Len(d))

\* the fallback: extractContents clones every partially contained element
\* into the fragment and leaves the original split in two, the wrapper takes
\* the fragment and is inserted where the range collapsed, normalize merges
\* the text nodes
ExtractAndWrap(d, r, id) ==
  LET slice == SubSeq(d, r.s + 1, r.e)
      u == Unmatched(slice, <<>>, <<>>)
  IN SubSeq(d, 1, r.s) \o u.closers
       \o <<WOpen(id)>> \o Reverse(AsOpen(u.closers)) \o slice
       \o Reverse(AsClose(u.openers)) \o <<WClose(id)>>
       \o u.openers \o SubSeq(d, r.e + 1, Len(d))

\* the statements of the fallback run inside the outer try of applyHighlight.
\* Elements of the page can make them throw: an "x" element that the range
\* partially contains makes extractContents throw before it changes the
\* document, a "y" element makes insertNode throw after the contents were
\* extracted
ExtractFaultTag == "x"
InsertFaultTag == "y"

PartiallyContains(d, r, tag) ==
  LET u == Unmatched(SubSeq(d, r.s + 1, r.e), <<>>, <<>>)
  IN \/ \E i \in 1..Len(u.openers) : u.openers[i].c = tag
     \/ \E i \in 1..Len(u.closers) : u.closers[i].c = tag

\* the document after extractContents: the range's content is gone, the
\* partially contained elements stay, split
ExtractContents(d, r) ==
  LET u == Unmatched(SubSeq(d, r.s + 1, r.e), <<>>, <<>>)
  IN SubSeq(d, 1, r.s) \o u.closers \o u.openers \o SubSeq(d, r.e + 1, Len(d))

\* the outer catch of applyHighlight is entered
WrapThrows(d, r) ==
  /\ r # NoRange
  /\ r.s # r.e
  /\ SurroundThrows(d, r)
  /\ PartiallyContains(d, r, ExtractFaultTag) \/ PartiallyContains(d, r, InsertFaultTag)

ApplyHighlight(d, r, id) ==
  IF r = NoRange \/ r.s = r.e THEN d
  ELSE IF ~SurroundThrows(d, r) THEN SurroundContents(d, r, id)
  ELSE IF PartiallyContains(d, r, ExtractFaultTag) THEN d
  ELSE IF PartiallyContains(d, r, InsertFaultTag) THEN ExtractContents(d, r)
  ELSE ExtractAndWrap(d, r, id)

\* the end tag that closes the start tag at token i
MatchingClose(d, i) ==
  CHOOSE j \in (i + 1)..Len(d) :
    /\ d[j].k = "close"
    /\ Len(StackAt(d, j)) = Len(StackAt(d, i)) - 1
    /\ \A m \in (i + 1)..(j - 1) : Len(StackAt(d, m)) >= Len(StackAt(d, i))

\* the removal of deleteHighlight: the first element with the id gives its
\* children to its parent and is removed; normalize merges the text nodes
RemoveWrapper(d, id) ==
  LET i == QueryWrapper(d, id)
  IN IF i = 0 THEN d
     ELSE LET j == MatchingClose(d, i)
          IN SubSeq(d, 1, i - 1) \o SubSeq(d, i + 1, j - 1) \o SubSeq(d, j + 1, Len(d))

\* ------------------------------------------------------------- capture

\* String.prototype.substring: both arguments clamped to the string, swapped
\* when the first is the larger
JsSubstring(str, a, b) ==
  LET ca == Max(0, Min(a, Len(str)))
      cb == Max(0, Min(b, Len(str)))
  IN Substring(str, Min(ca, cb), Max(ca, cb))

\* const contextLength = 50
ContextLength == 50

\* window.location.href.split('#')[0] of the page the script runs in
PageUrl == "u"

\* the token indices of the characters of the document, in document order
CharIdx(d) == SelectSeq([i \in 1..Len(d) |-> i], LAMBDA i : IsCh(d[i]))

\* a selection made with the mouse, from the first-th to the last-th character
\* of the document: its Range starts in the text node of the one, right
\* before it, and ends in the text node of the other, right after it.  A
\* Range is live: its boundary points stay on these characters when wrapper
\* tags are inserted or removed around them
RangeOfChars(d, first, last) ==
  [s |-> CharIdx(d)[first] - 1, e |-> CharIdx(d)[last]]

\* range.startContainer, as the text node that holds gap g
StartContainer(d, g) ==
  CHOOSE n \in {TextNodesOf(d)[i] : i \in 1..Len(TextNodesOf(d))} :
    n.from - 1 <= g /\ g < n.to

\* the loop that looks range.startContainer up in textNodes; 0 when absent
CaptureStartOffset(d, runs, r) ==
  LET c == StartContainer(d, r.s)
      hits == {i \in 1..Len(runs) : runs[i].node = c}
  IN IF hits = {} THEN 0
     ELSE LET i == CHOOSE x \in hits : TRUE
          IN runs[i].startOffset + (r.s - (c.from - 1))

\* whether that loop found the start container among the runs
StartContainerLocated(d, r) ==
  \E i \in 1..Len(CaptureRuns(d)) : CaptureRuns(d)[i].node = StartContainer(d, r.s)

HighlightDataAfterStart(d, r, text, id) ==
  LET runs == CaptureRuns(d)
      fullText == FullTextOf(runs)
      located == StartContainerLocated(d, r)
      startOffset == CaptureStartOffset(d, runs, r)
      endOffset == IF located THEN startOffset + Len(text) ELSE 0
  IN [id |-> id, text |-> text,
      textBefore |-> JsSubstring(fullText, Max(0, startOffset - ContextLength), startOffset),
      textAfter |-> JsSubstring(fullText, startOffset,
                                Min(Len(fullText), startOffset + ContextLength)),
      url |-> PageUrl, startOffset |-> startOffset, endOffset |-> endOffset,
      note |-> "", favorite |-> FALSE]

\* highlightData of createHighlightFromText
HighlightData(d, r, text, id) ==
  LET runs == CaptureRuns(d)
      fullText == FullTextOf(runs)
      located == StartContainerLocated(d, r)
      startOffset == CaptureStartOffset(d, runs, r)
      endOffset == IF located THEN startOffset + Len(text) ELSE 0
  IN [id |-> id, text |-> text,
      textBefore |-> JsSubstring(fullText, Max(0, startOffset - ContextLength), startOffset),
      textAfter |-> JsSubstring(fullText, endOffset,
                                Min(Len(fullText), endOffset + ContextLength)),
      url |-> PageUrl, startOffset |-> startOffset, endOffset |-> endOffset,
      note |-> "", favorite |-> FALSE]

\* ------------------------------------------------------------- restoration

\* a forEach without the per-Anchor isolation: the first Anchor without a
\* range ends the pass, uncounted
RECURSIVE RestoreFromEscaping(_, _, _)
RestoreFromEscaping(hs, i, acc) ==
  IF i > Len(hs) THEN acc
  ELSE LET h == hs[i]
           range == CreateRangeFromHighlight(acc.doc, h)
           seen == [acc EXCEPT !.docs = Append(@, acc.doc),
                               !.ranges = Append(@, range)]
       IN IF range # NoRange
          THEN RestoreFromEscaping(hs, i + 1,
                 [seen EXCEPT !.doc = ApplyHighlight(acc.doc, range, h.id),
                              !.successCount = @ + 1])
          ELSE seen

\* a forEach that stops at the first Anchor without a range
RECURSIVE RestoreFromAborting(_, _, _)
RestoreFromAborting(hs, i, acc) ==
  IF i > Len(hs) THEN acc
  ELSE LET h == hs[i]
           range == CreateRangeFromHighlight(acc.doc, h)
           seen == [acc EXCEPT !.docs = Append(@, acc.doc),
                               !.ranges = Append(@, range)]
       IN IF range # NoRange
          THEN RestoreFromAborting(hs, i + 1,
                 [seen EXCEPT !.doc = ApplyHighlight(acc.doc, range, h.id),
                              !.successCount = @ + 1])
          ELSE [seen EXCEPT !.failCount = @ + 1]

\* an applyHighlight without its catch under a forEach without isolation: the
\* first wrapping that throws ends the pass
RECURSIVE RestoreFromUncaught(_, _, _)
RestoreFromUncaught(hs, i, acc) ==
  IF i > Len(hs) THEN acc
  ELSE LET h == hs[i]
           range == CreateRangeFromHighlight(acc.doc, h)
           seen == [acc EXCEPT !.docs = Append(@, acc.doc),
                               !.ranges = Append(@, range)]
       IN IF range # NoRange
          THEN IF WrapThrows(acc.doc, range)
               THEN [seen EXCEPT !.doc = ApplyHighlight(acc.doc, range, h.id)]
               ELSE RestoreFromUncaught(hs, i + 1,
                      [seen EXCEPT !.doc = ApplyHighlight(acc.doc, range, h.id),
                                   !.successCount = @ + 1])
          ELSE RestoreFromUncaught(hs, i + 1, [seen EXCEPT !.failCount = @ + 1])

\* highlights.forEach of restoreHighlights from the i-th Anchor on; acc holds
\* the document, the two counters and, for each Anchor tried, the document it
\* was resolved against and the range createRangeFromHighlight returned
RECURSIVE RestoreFrom(_, _, _)
RestoreFrom(hs, i, acc) ==
  IF i > Len(hs) THEN acc
  ELSE LET h == hs[i]
           range == CreateRangeFromHighlight(acc.doc, h)
           seen == [acc EXCEPT !.docs = Append(@, acc.doc),
                               !.ranges = Append(@, range)]
       IN IF range # NoRange
          THEN RestoreFrom(hs, i + 1,
                 [seen EXCEPT !.doc = ApplyHighlight(acc.doc, range, h.id),
                              !.successCount = @ + 1])
          ELSE RestoreFrom(hs, i + 1, [seen EXCEPT !.failCount = @ + 1])

\* the showToast calls of applyHighlight's catch during one pass: one for
\* each Anchor whose wrapping threw
Warnings(docs, ranges) ==
  Cardinality({i \in 1..Len(ranges) : WrapThrows(docs[i], ranges[i])})

RestoreHighlights(d, hs) ==
  LET done == RestoreFrom(hs, 1, [doc |-> d, successCount |-> 0, failCount |-> 0,
                                  docs |-> <<>>, ranges |-> <<>>])
  IN [ran |-> TRUE, pre |-> d, batch |-> hs, doc |-> done.doc,
      successCount |-> done.successCount, failCount |-> done.failCount,
      docs |-> done.docs, ranges |-> done.ranges,
      toast |-> done.successCount > 0,
      warnings |-> Warnings(done.docs, done.ranges)]

NoPass == [ran |-> FALSE, pre |-> <<>>, batch |-> <<>>, doc |-> <<>>,
           successCount |-> 0, failCount |-> 0, docs |-> <<>>, ranges |-> <<>>,
           toast |-> FALSE, warnings |-> 0]

\* allHighlights.filter(h => h.url.split('#')[0] === pageUrl)
ForThisPage(all) == SelectSeq(all, LAMBDA h : h.url = PageUrl)

\* allHighlights.filter(h => h.id !== highlightId)
WithoutId(all, id) == SelectSeq(all, LAMBDA h : h.id # id)

\* ------------------------------------------------------------- inputs

Text(s) == Toks(s)

\* the versions of the page's content the script is loaded into
PagePlain == Text(<<"a", "b">>)
PageGrown == Text(<<"b", " ", "a", "b">>)
PageSpaced ==
  <<Open("b")>> \o Text(<<"a">>) \o <<Close("b")>> \o Text(<<" ">>)
    \o <<Open("i")>> \o Text(<<"b">>) \o <<Close("i")>>
PageInline ==
  <<Open("b")>> \o Text(<<"a", "b">>) \o <<Close("b")>>
    \o <<Open("i")>> \o Text(<<" ", "b">>) \o <<Close("i")>>
Pages == {PagePlain, PageGrown, PageSpaced, PageInline}

\* Anchors stored by earlier visits: what createHighlightFromText captured
\* then, on the page as it was
AnchorA == HighlightData(PagePlain, RangeOfChars(PagePlain, 1, 1), <<"a">>, 1)
AnchorB == HighlightData(PagePlain, RangeOfChars(PagePlain, 2, 2), <<"b">>, 2)
AnchorBA == HighlightData(PageGrown, RangeOfChars(PageGrown, 1, 3), <<"b", " ", "a">>, 3)
AnchorAB == HighlightData(PagePlain, RangeOfChars(PagePlain, 1, 2), <<"a", "b">>, 1)
InitialStores ==
  {<<>>, <<AnchorB>>, <<AnchorAB>>,
   <<AnchorBA, AnchorA, AnchorB>>, <<AnchorA, AnchorBA, AnchorB>>,
   <<AnchorA, AnchorB, AnchorBA>>}
FirstFreshId == 1 + Len(<<AnchorA, AnchorB, AnchorBA>>)

\* how many highlights the user creates in one run
MaxCaptures == 1
\* how many Anchors the store holds at most
MaxStored == 3
\* how many times the page is loaded again in one run
MaxReloads == 1
\* how many chains of storage callbacks are in flight at once
MaxInFlight == 2

\* ------------------------------------------------------------- state

VARIABLES
  page,        \* the body as the browser parsed it, before any script ran
  doc,         \* document.body
  readyState,  \* document.readyState: "loading" or "complete"
  store,       \* chrome.storage.local: highlights
  highlights,  \* let highlights: the Anchors of this page, as last read
  loadPending, \* the storage read of loadHighlights is in flight
  listeners,   \* the DOMContentLoaded listeners registered so far
  menu,        \* the selection menu and the range and text its buttons hold
  capture,     \* createHighlightFromText between its storage callbacks
  menuGet,     \* showHighlightMenu: the id whose storage read is in flight, or 0
  popup,       \* the note popup: the id it shows, or 0
  del,         \* deleteHighlight between its storage callbacks
  nextId,      \* the next fresh highlight id
  reloads,     \* page loads so far
  lastPass,    \* what the last restoreHighlights call did
  hash,        \* window.location.hash: the id after '#sensenote-', or 0
  pollers,     \* one entry per scrollToHighlightFromHash call that polls
  edits,       \* the store updates issued besides capture and deletion
  dialogs,     \* the note dialogs in the document, by highlight id
  dialogGets,  \* showNoteDialog: the ids whose storage read is in flight
  noteTimers   \* the ids whose note dialog is due 500 ms after capture

vars == <<page, doc, readyState, store, highlights, loadPending, listeners, menu,
          capture, menuGet, popup, del, nextId, reloads, lastPass, hash,
          pollers, edits, dialogs, dialogGets, noteTimers>>

\* the note dialog and the store updates around it
noteVars == <<edits, dialogs, dialogGets, noteTimers>>

NoMenu == [open |-> FALSE, first |-> 0, last |-> 0, text |-> <<>>]
NoCapture == [stage |-> "idle", h |-> AnchorA, first |-> 0, last |-> 0, all |-> <<>>]
NoDelete == [stage |-> "idle", id |-> 0, filtered |-> <<>>]

\* scrollToHighlightFromHash: a '#sensenote-<id>' fragment starts a poller
ScrollToHighlightFromHash(ps, h) ==
  IF h # 0
  THEN Append(ps, [id |-> h, attempts |-> 0, phase |-> "wait", scrolls |-> 0])
  ELSE ps

\* the content script has just run in a freshly loaded page: loadHighlights()
\* has issued its storage read, and the fragment is looked at now or, while
\* the document is loading, at DOMContentLoaded
Started(content, rs, h) ==
  /\ page = content
  /\ doc = content
  /\ readyState = rs
  /\ highlights = <<>>
  /\ loadPending = TRUE
  /\ listeners = IF rs = "loading" THEN {"scroll"} ELSE {}
  /\ pollers = IF rs = "loading" THEN <<>> ELSE ScrollToHighlightFromHash(<<>>, h)
  /\ menu = NoMenu
  /\ capture = NoCapture
  /\ menuGet = 0
  /\ popup = 0
  /\ del = NoDelete
  /\ lastPass = NoPass
  /\ dialogs = {}
  /\ dialogGets = {}
  /\ noteTimers = {}

\* the chains of storage callbacks in flight: the read of loadHighlights,
\* createHighlightFromText, showHighlightMenu, deleteHighlight
InFlight ==
  (IF loadPending THEN 1 ELSE 0) + (IF capture.stage # "idle" THEN 1 ELSE 0)
    + (IF menuGet # 0 THEN 1 ELSE 0) + (IF del.stage # "idle" THEN 1 ELSE 0)

Init ==
  /\ hash = 0
  /\ \E content \in Pages, rs \in {"loading", "complete"} : Started(content, rs, hash)
  /\ store \in InitialStores
  /\ nextId = FirstFreshId
  /\ reloads = 0
  /\ edits = {}

\* ------------------------------------------------------------- page load

LoadHighlightsCallbackPruning ==
  /\ loadPending
  /\ loadPending' = FALSE
  /\ highlights' = ForThisPage(store)
  /\ IF readyState = "loading"
     THEN /\ listeners' = listeners \cup {"restore"}
          /\ UNCHANGED <<doc, lastPass, store>>
     ELSE /\ lastPass' = RestoreHighlights(doc, highlights')
          /\ doc' = lastPass'.doc
          /\ store' = SelectSeq(store, LAMBDA h : QueryWrapper(doc', h.id) # 0)
          /\ UNCHANGED listeners
  /\ UNCHANGED <<page, readyState, menu, capture, menuGet, popup, del, nextId,
                 reloads, hash, pollers>>
  /\ UNCHANGED noteVars

LoadHighlightsCallbackEager ==
  /\ loadPending
  /\ loadPending' = FALSE
  /\ highlights' = ForThisPage(store)
  /\ lastPass' = RestoreHighlights(doc, highlights')
  /\ doc' = lastPass'.doc
  /\ UNCHANGED listeners
  /\ UNCHANGED <<page, readyState, store, menu, capture, menuGet, popup, del, nextId,
                 reloads, hash, pollers>>
  /\ UNCHANGED noteVars

\* the callback of loadHighlights: the Anchors of this page, then restoration,
\* now or at DOMContentLoaded
LoadHighlightsCallback ==
  /\ loadPending
  /\ loadPending' = FALSE
  /\ highlights' = ForThisPage(store)
  /\ IF readyState = "loading"
     THEN /\ listeners' = listeners \cup {"restore"}
          /\ UNCHANGED <<doc, lastPass>>
     ELSE /\ lastPass' = RestoreHighlights(doc, highlights')
          /\ doc' = lastPass'.doc
          /\ UNCHANGED listeners
  /\ UNCHANGED <<page, readyState, store, menu, capture, menuGet, popup, del, nextId,
                 reloads, hash, pollers>>
  /\ UNCHANGED noteVars

\* the document finishes loading: the listeners run in registration order
DOMContentLoaded ==
  /\ readyState = "loading"
  /\ readyState' = "complete"
  /\ listeners' = {}
  /\ pollers' = IF "scroll" \in listeners
                THEN ScrollToHighlightFromHash(pollers, hash) ELSE pollers
  /\ IF "restore" \in listeners
     THEN /\ lastPass' = RestoreHighlights(doc, highlights)
          /\ doc' = lastPass'.doc
     ELSE UNCHANGED <<doc, lastPass>>
  /\ UNCHANGED <<page, store, highlights, loadPending, menu, capture, menuGet, popup,
                 del, nextId, reloads, hash>>
  /\ UNCHANGED noteVars

\* ------------------------------------------------------------- selection

NumChars(d) == Len(CharIdx(d))

\* e.target.closest('.mark2link-highlight') for the character the mouse is
\* released on
InsideWrapper(d, c) ==
  \E j \in 1..Len(StackAt(d, CharIdx(d)[c])) :
    IsWrapperOpen(StackAt(d, CharIdx(d)[c])[j])

\* the mouseup handler and its timer, then showSelectionMenu: the menu
\* replaces every open overlay and keeps the range and its trimmed text.
\* The handler tests the text of the whole selection and hands over its first
\* range only: 'more' says that further ranges of the selection hold text
ShowSelectionMenu(first, last, more) ==
  /\ nextId < FirstFreshId + MaxCaptures
  /\ Len(store) < MaxStored
  /\ ~menu.open
  /\ ~(InsideWrapper(doc, first) /\ InsideWrapper(doc, last))
  /\ LET selectedText == Trim(RangeToString(doc, RangeOfChars(doc, first, last)))
     IN /\ Len(selectedText) > 0 \/ more
        /\ menu' = [open |-> TRUE, first |-> first, last |-> last,
                    text |-> selectedText]
  /\ popup' = 0
  /\ UNCHANGED <<page, doc, readyState, store, highlights, loadPending, listeners,
                 capture, menuGet, del, nextId, reloads, lastPass, hash, pollers>>
  /\ dialogs' = {}
  /\ UNCHANGED <<edits, dialogGets, noteTimers>>

NoTextUnchecked(text) == FALSE

\* the guard of createHighlightFromText: no text to highlight
NoText(text) == Len(text) = 0

\* a colour button of the menu: createHighlightFromText up to its storage read
CreateHighlightFromText ==
  /\ menu.open
  /\ capture.stage = "idle"
  /\ Len(store) < MaxStored
  /\ InFlight < MaxInFlight
  /\ nextId < FirstFreshId + MaxCaptures
  /\ IF NoText(menu.text)
       THEN UNCHANGED <<capture, nextId>>
       ELSE /\ capture' = [stage |-> "get",
                           h |-> HighlightData(doc,
                                   RangeOfChars(doc, menu.first, menu.last),
                                   menu.text, nextId),
                           first |-> menu.first, last |-> menu.last, all |-> <<>>]
            /\ nextId' = nextId + 1
  /\ menu' = NoMenu
  /\ popup' = 0
  /\ UNCHANGED <<page, doc, readyState, store, highlights, loadPending, listeners,
                 menuGet, del, reloads, lastPass, hash, pollers>>
  /\ dialogs' = {}
  /\ UNCHANGED <<edits, dialogGets, noteTimers>>

\* the callback of the read: push the Anchor, write the list back
CaptureGet ==
  /\ capture.stage = "get"
  /\ capture' = [capture EXCEPT !.stage = "set", !.all = Append(store, capture.h)]
  /\ UNCHANGED <<page, doc, readyState, store, highlights, loadPending, listeners, menu,
                 menuGet, popup, del, nextId, reloads, lastPass, hash, pollers>>
  /\ UNCHANGED noteVars

\* the write and its callback: the cache gets the Anchor, the range its wrapper
CaptureSet ==
  /\ capture.stage = "set"
  /\ store' = capture.all
  /\ highlights' = Append(highlights, capture.h)
  /\ doc' = ApplyHighlight(doc, RangeOfChars(doc, capture.first, capture.last),
                           capture.h.id)
  /\ capture' = NoCapture
  /\ UNCHANGED <<page, readyState, loadPending, listeners, menu, menuGet, popup, del,
                 nextId, reloads, lastPass, hash, pollers>>
  /\ noteTimers' = noteTimers \cup {capture.h.id}
  /\ UNCHANGED <<edits, dialogs, dialogGets>>

\* ------------------------------------------------------------- wrapper click

\* window.location.href, compared with an Anchor's url
HrefIs(url) == hash = 0 /\ url = PageUrl

\* the click handler of a wrapper: showHighlightMenu issues its storage read
WrapperClick(id) ==
  /\ menuGet = 0
  /\ InFlight < MaxInFlight
  /\ QueryWrapper(doc, id) # 0
  /\ menuGet' = id
  /\ UNCHANGED <<page, doc, readyState, store, highlights, loadPending, listeners, menu,
                 capture, popup, del, nextId, reloads, lastPass, hash, pollers>>
  /\ UNCHANGED noteVars

\* the callback: the cache is replaced, the popup opens when the id is in it
ShowHighlightMenuCallback ==
  /\ menuGet # 0
  /\ menuGet' = 0
  /\ highlights' = SelectSeq(store, LAMBDA h : HrefIs(h.url))
  /\ IF \E i \in 1..Len(highlights') : highlights'[i].id = menuGet
     THEN popup' = menuGet /\ menu' = NoMenu /\ dialogs' = {}
     ELSE UNCHANGED <<popup, menu, dialogs>>
  /\ UNCHANGED <<page, doc, readyState, store, loadPending, listeners, capture, del,
                 nextId, reloads, lastPass, hash, pollers>>
  /\ UNCHANGED <<edits, dialogGets, noteTimers>>

\* the popup's delete button: deleteHighlight up to its storage read, or
\* nothing when the user declines the confirm dialog
DeleteHighlight(confirmed) ==
  /\ popup # 0
  /\ del.stage = "idle"
  /\ InFlight < MaxInFlight
  /\ popup' = 0
  /\ menu' = NoMenu
  /\ del' = IF confirmed THEN [stage |-> "get", id |-> popup, filtered |-> <<>>]
            ELSE del
  /\ UNCHANGED <<page, doc, readyState, store, highlights, loadPending, listeners,
                 capture, menuGet, nextId, reloads, lastPass, hash, pollers>>
  /\ dialogs' = {}
  /\ UNCHANGED <<edits, dialogGets, noteTimers>>

DeleteGet ==
  /\ del.stage = "get"
  /\ del' = [del EXCEPT !.stage = "set", !.filtered = WithoutId(store, del.id)]
  /\ UNCHANGED <<page, doc, readyState, store, highlights, loadPending, listeners, menu,
                 capture, menuGet, popup, nextId, reloads, lastPass, hash, pollers>>
  /\ UNCHANGED noteVars

\* the write and its callback: cache and document lose the highlight
DeleteSet ==
  /\ del.stage = "set"
  /\ store' = del.filtered
  /\ highlights' = WithoutId(highlights, del.id)
  /\ doc' = RemoveWrapper(doc, del.id)
  /\ del' = NoDelete
  /\ UNCHANGED <<page, readyState, loadPending, listeners, menu, capture, menuGet, popup,
                 nextId, reloads, lastPass, hash, pollers>>
  /\ UNCHANGED noteVars

\* ------------------------------------------------------------- notes

\* the store updates issued in one run, besides capture and deletion
MaxEdits == 1
\* the notes a user types
Notes == {"n"}

StoredIds(all) == {all[i].id : i \in 1..Len(all)}

\* highlights.find(h => h.id === highlightId) on the cache
InCache(id) == id \in StoredIds(highlights)

\* what is common to every action of this section
pageVars == <<page, doc, readyState, loadPending, listeners, capture, menuGet, del,
              nextId, reloads, lastPass, hash, pollers>>

\* the timer set by the capture: showNoteDialog up to its storage read
NoteTimerFires(id) ==
  /\ id \in noteTimers
  /\ noteTimers' = noteTimers \ {id}
  /\ IF InCache(id)
     THEN /\ menu' = NoMenu /\ popup' = 0 /\ dialogs' = {}
          /\ dialogGets' = dialogGets \cup {id}
     ELSE UNCHANGED <<menu, popup, dialogs, dialogGets>>
  /\ UNCHANGED <<pageVars, store, highlights, edits>>

\* the popup's edit button: closeAllMenus, then showNoteDialog
EditNoteButton ==
  /\ popup # 0
  /\ menu' = NoMenu /\ popup' = 0 /\ dialogs' = {}
  /\ dialogGets' = IF InCache(popup) THEN dialogGets \cup {popup} ELSE dialogGets
  /\ UNCHANGED <<pageVars, store, highlights, edits, noteTimers>>

\* the callback of showNoteDialog's read: the dialog is appended to the body
ShowNoteDialogCallback(id) ==
  /\ id \in dialogGets
  /\ dialogGets' = dialogGets \ {id}
  /\ dialogs' = dialogs \cup {id}
  /\ UNCHANGED <<pageVars, store, highlights, edits, noteTimers, menu, popup>>

\* an update of one stored Anchor, or of the list, as a storage callback
\* chain: read ("get"), then write ("set"), then nothing more ("done")
Edit(ctx, op, id, note) ==
  [ctx |-> ctx, op |-> op, id |-> id, note |-> note,
   stage |-> IF op = "clear" THEN "set" ELSE "get", all |-> <<>>]

\* the dialog's save button: saveHighlightDetails up to its read, closeAllMenus
SaveNote(id, note) ==
  /\ id \in dialogs
  /\ Cardinality(edits) < MaxEdits
  /\ \A e \in edits : e.ctx = "page" => e.stage = "done"
  /\ edits' = edits \cup {Edit("page", "details", id, note)}
  /\ menu' = NoMenu /\ popup' = 0 /\ dialogs' = {}
  /\ UNCHANGED <<pageVars, store, highlights, dialogGets, noteTimers>>

\* the dialog's cancel button
CancelNote(id) ==
  /\ id \in dialogs
  /\ menu' = NoMenu /\ popup' = 0 /\ dialogs' = {}
  /\ UNCHANGED <<pageVars, store, highlights, edits, dialogGets, noteTimers>>

\* the extension popup: toggleFavorite, updateNote, handleDelete (confirmed)
\* and handleClearAll (confirmed), each up to its first storage call
PopupEdit(op, id, note) ==
  /\ Cardinality(edits) < MaxEdits
  /\ \A e \in edits : e.ctx = "popup" => e.stage = "done"
  /\ op = "clear" \/ id \in StoredIds(store)
  /\ edits' = edits \cup {Edit("popup", op, id, note)}
  /\ UNCHANGED <<pageVars, store, highlights, menu, popup, dialogs, dialogGets,
                 noteTimers>>

ToggleFavorite(id) == PopupEdit("favorite", id, "")
UpdateNote(id, note) == PopupEdit("note", id, note)
HandleDelete(id) == PopupEdit("delete", id, "")
HandleClearAll == PopupEdit("clear", 0, "")

\* the list an update writes, from the list it read
ApplyEdit(e, all) ==
  IF e.op = "clear" THEN <<>>
  ELSE IF e.op = "delete" THEN WithoutId(all, e.id)
  ELSE [i \in 1..Len(all) |->
          IF all[i].id # e.id THEN all[i]
          ELSE IF e.op = "favorite" THEN [all[i] EXCEPT !.favorite = ~@]
          ELSE [all[i] EXCEPT !.note = e.note]]

\* the callback of an update's read: without the Anchor nothing is written
EditGet(e) ==
  /\ e \in edits
  /\ e.stage = "get"
  /\ edits' = IF e.op # "delete" /\ e.id \notin StoredIds(store)
              THEN (edits \ {e}) \cup {[e EXCEPT !.stage = "done"]}
              ELSE (edits \ {e})
                     \cup {[e EXCEPT !.stage = "set", !.all = ApplyEdit(e, store)]}
  /\ UNCHANGED <<pageVars, store, highlights, menu, popup, dialogs, dialogGets,
                 noteTimers>>

\* the write and its callback: saveHighlightDetails also updates the cache
EditSet(e) ==
  /\ e \in edits
  /\ e.stage = "set"
  /\ store' = e.all
  /\ highlights' = IF e.ctx = "page" THEN ApplyEdit(e, highlights) ELSE highlights
  /\ edits' = (edits \ {e}) \cup {[e EXCEPT !.stage = "done", !.all = <<>>]}
  /\ UNCHANGED <<pageVars, menu, popup, dialogs, dialogGets, noteTimers>>

\* ------------------------------------------------------------- scroll

\* const maxAttempts = 10
MaxAttempts == 10
\* how many times scrollToHighlightFromHash starts polling in one page load
MaxTriggers == 1

\* the hashchange listener: the user navigates to '#sensenote-<id>'
HashChange(id) ==
  /\ id # hash
  /\ Len(pollers) < MaxTriggers
  /\ hash' = id
  /\ pollers' = ScrollToHighlightFromHash(pollers, id)
  /\ UNCHANGED <<page, doc, readyState, store, highlights, loadPending, listeners, menu,
                 capture, menuGet, popup, del, nextId, reloads, lastPass>>
  /\ UNCHANGED noteVars

\* tryScroll scrolling to the top of the page when it gives up
TryScrollStepScrollsAtCap(p, found) ==
  LET attempts == p.attempts + 1
  IN IF found
     THEN [p EXCEPT !.attempts = attempts, !.scrolls = @ + 1, !.phase = "clean"]
     ELSE IF attempts < MaxAttempts
     THEN [p EXCEPT !.attempts = attempts]
     ELSE [p EXCEPT !.attempts = attempts, !.scrolls = @ + 1, !.phase = "exhausted"]

\* tryScroll comparing with <= : one attempt more than the cap
TryScrollStepOneMore(p, found) ==
  LET attempts == p.attempts + 1
  IN IF found
     THEN [p EXCEPT !.attempts = attempts, !.scrolls = @ + 1, !.phase = "clean"]
     ELSE IF attempts <= MaxAttempts
     THEN [p EXCEPT !.attempts = attempts]
     ELSE [p EXCEPT !.attempts = attempts, !.phase = "exhausted"]

\* tryScroll that keeps polling after it has scrolled
TryScrollStepKeepsPolling(p, found) ==
  LET attempts == p.attempts + 1
  IN IF attempts < MaxAttempts
     THEN [p EXCEPT !.attempts = attempts,
                    !.scrolls = IF found THEN @ + 1 ELSE @]
     ELSE [p EXCEPT !.attempts = attempts,
                    !.scrolls = IF found THEN @ + 1 ELSE @,
                    !.phase = IF found THEN "clean" ELSE "exhausted"]

\* one run of tryScroll, from its timer
TryScrollStep(p, found) ==
  LET attempts == p.attempts + 1
  IN IF found
     THEN [p EXCEPT !.attempts = attempts, !.scrolls = @ + 1, !.phase = "clean"]
     ELSE IF attempts < MaxAttempts
     THEN [p EXCEPT !.attempts = attempts]
     ELSE [p EXCEPT !.attempts = attempts, !.phase = "exhausted"]

TryScroll(i) ==
  /\ i \in 1..Len(pollers)
  /\ pollers[i].phase = "wait"
  /\ pollers' = [pollers EXCEPT
                   ![i] = TryScrollStep(@, QueryWrapper(doc, pollers[i].id) # 0)]
  /\ hash' = IF pollers'[i].phase = "exhausted" THEN 0 ELSE hash
  /\ UNCHANGED <<page, doc, readyState, store, highlights, loadPending, listeners, menu,
                 capture, menuGet, popup, del, nextId, reloads, lastPass>>
  /\ UNCHANGED noteVars

\* the timer set after a scroll: history.replaceState drops the fragment
CleanHash(i) ==
  /\ i \in 1..Len(pollers)
  /\ pollers[i].phase = "clean"
  /\ pollers' = [pollers EXCEPT ![i].phase = "done"]
  /\ hash' = 0
  /\ UNCHANGED <<page, doc, readyState, store, highlights, loadPending, listeners, menu,
                 capture, menuGet, popup, del, nextId, reloads, lastPass>>
  /\ UNCHANGED noteVars

\* ------------------------------------------------------------- reload

\* the page is loaded again, its content possibly changed: the old script and
\* its timers and callbacks are gone; a storage write already issued may
\* still land
Reload(content, rs, landed) ==
  /\ reloads < MaxReloads
  /\ reloads' = reloads + 1
  /\ landed \in {store}
                \cup (IF capture.stage = "set" THEN {capture.all} ELSE {})
                \cup (IF del.stage = "set" THEN {del.filtered} ELSE {})
  /\ store' = landed
  /\ page' = content
  /\ doc' = content
  /\ readyState' = rs
  /\ highlights' = <<>>
  /\ loadPending' = TRUE
  /\ listeners' = IF rs = "loading" THEN {"scroll"} ELSE {}
  /\ pollers' = IF rs = "loading" THEN <<>>
                ELSE ScrollToHighlightFromHash(<<>>, hash)
  /\ menu' = NoMenu
  /\ capture' = NoCapture
  /\ menuGet' = 0
  /\ popup' = 0
  /\ del' = NoDelete
  /\ lastPass' = NoPass
  /\ UNCHANGED <<nextId, hash>>
  /\ dialogs' = {}
  /\ dialogGets' = {}
  /\ noteTimers' = {}
  /\ edits' = {e \in edits : e.ctx = "popup"}
               \cup {[e EXCEPT !.ctx = "unloaded"] :
                       e \in {x \in edits : x.ctx # "popup" /\ x.stage = "set"}}

\* ------------------------------------------------------------- behaviours

ReadyStates == {"loading", "complete"}

PageNext ==
  \/ LoadHighlightsCallback
  \/ DOMContentLoaded
  \/ \E first \in 1..NumChars(doc) : \E last \in first..NumChars(doc) :
       \E more \in BOOLEAN : ShowSelectionMenu(first, last, more)
  \/ CreateHighlightFromText
  \/ CaptureGet
  \/ CaptureSet
  \/ \E id \in WrapperIds(doc) : WrapperClick(id)
  \/ ShowHighlightMenuCallback
  \/ \E confirmed \in BOOLEAN : DeleteHighlight(confirmed)
  \/ DeleteGet
  \/ DeleteSet
  \/ \E content \in Pages, rs \in ReadyStates :
       \E landed \in {store, capture.all, del.filtered} : Reload(content, rs, landed)

SpecPage == Init /\ [][PageNext]_vars

\* the fragment navigation: page load, restoration, hashchange and the timers
\* of scrollToHighlightFromHash
\* the fragment names no highlight (0), AnchorB or AnchorBA
HashIds == {0, AnchorB.id, AnchorBA.id}
ScrollPages == {PagePlain, PageGrown}
ScrollStores == {<<>>, <<AnchorB>>, <<AnchorA, AnchorB, AnchorBA>>}

InitScroll ==
  /\ hash \in HashIds
  /\ \E content \in ScrollPages, rs \in ReadyStates : Started(content, rs, hash)
  /\ store \in ScrollStores
  /\ nextId = FirstFreshId
  /\ reloads = 0
  /\ edits = {}

ScrollNext ==
  \/ LoadHighlightsCallback
  \/ DOMContentLoaded
  \/ \E id \in HashIds : HashChange(id)
  \/ \E i \in 1..MaxTriggers : TryScroll(i)
  \/ \E i \in 1..MaxTriggers : CleanHash(i)

SpecScroll == InitScroll /\ [][ScrollNext]_vars

\* timers that are due do fire
SpecScrollFair ==
  /\ SpecScroll
  /\ \A i \in 1..MaxTriggers : WF_vars(TryScroll(i)) /\ WF_vars(CleanHash(i))

\* resolution of stored Anchors against the pages: the Anchor resolved is any
\* trimmed, non-empty text with any context, alone in the store or behind an
\* Anchor that gets its wrapper first
MaxText == 3
MaxContext == 1
Alphabet == {"a", "b", " "}

Strings(n) == UNION {[1..m -> Alphabet] : m \in 0..n}

ResolveAnchors ==
  {[id |-> AnchorA.id, text |-> t, textBefore |-> b, textAfter |-> a,
    url |-> PageUrl, startOffset |-> Len(b), endOffset |-> Len(b) + Len(t),
    note |-> "", favorite |-> FALSE] :
     t \in {x \in Strings(MaxText) : x # <<>> /\ Trim(x) = x},
     b \in Strings(MaxContext), a \in Strings(MaxContext)}

ResolveStores ==
  {<<h>> : h \in ResolveAnchors} \cup {<<AnchorB, h>> : h \in ResolveAnchors}

InitResolve ==
  /\ hash = 0
  /\ \E content \in Pages, rs \in ReadyStates : Started(content, rs, hash)
  /\ store \in ResolveStores
  /\ nextId = FirstFreshId
  /\ reloads = 0
  /\ edits = {}

ResolveNext ==
  \/ LoadHighlightsCallback
  \/ DOMContentLoaded

SpecResolve == InitResolve /\ [][ResolveNext]_vars

\* restoration alone: page loads over stores that hold up to MaxBatch of the
\* Anchors, in any order
MaxBatch == 3
RestorePool == {AnchorA, AnchorB, AnchorBA, AnchorAB}

RestoreStores ==
  {b \in UNION {[1..n -> RestorePool] : n \in 0..MaxBatch} :
     \A i \in 1..Len(b) : \A j \in 1..Len(b) : b[i].id = b[j].id => i = j}

InitRestore ==
  /\ hash = 0
  /\ \E content \in Pages, rs \in ReadyStates : Started(content, rs, hash)
  /\ store \in RestoreStores
  /\ nextId = FirstFreshId
  /\ reloads = 0
  /\ edits = {}

RestoreNext ==
  \/ LoadHighlightsCallback
  \/ DOMContentLoaded
  \/ \E content \in Pages, rs \in ReadyStates : Reload(content, rs, store)

SpecRestore == InitRestore /\ [][RestoreNext]_vars

\* restoration on pages where wrapping can throw: the stored text "ab" starts
\* outside an element that makes the fallback throw and ends inside it
PageExtractFault ==
  Text(<<"a">>) \o <<Open(ExtractFaultTag)>> \o Text(<<"b">>)
    \o <<Close(ExtractFaultTag)>>
PageInsertFault ==
  Text(<<"a">>) \o <<Open(InsertFaultTag)>> \o Text(<<"b">>)
    \o <<Close(InsertFaultTag)>>
FaultPages == {PageExtractFault, PageInsertFault, PageInline}

InitFault ==
  /\ hash = 0
  /\ \E content \in FaultPages, rs \in ReadyStates : Started(content, rs, hash)
  /\ store \in RestoreStores
  /\ nextId = FirstFreshId
  /\ reloads = 0
  /\ edits = {}

FaultNext ==
  \/ LoadHighlightsCallback
  \/ DOMContentLoaded
  \/ \E content \in FaultPages, rs \in ReadyStates : Reload(content, rs, store)

SpecFault == InitFault /\ [][FaultNext]_vars

\* the store under updates from the page and from the extension popup
InitStore ==
  /\ hash = 0
  /\ Started(PagePlain, "complete", hash)
  /\ store = <<AnchorB>>
  /\ nextId = FirstFreshId
  /\ reloads = 0
  /\ edits = {}

StoreNext ==
  \/ LoadHighlightsCallback
  \/ \E first \in 1..NumChars(doc) : \E last \in first..NumChars(doc) :
       \E more \in BOOLEAN : ShowSelectionMenu(first, last, more)
  \/ CreateHighlightFromText
  \/ CaptureGet
  \/ CaptureSet
  \/ \E id \in noteTimers : NoteTimerFires(id)
  \/ \E id \in WrapperIds(doc) : WrapperClick(id)
  \/ ShowHighlightMenuCallback
  \/ EditNoteButton
  \/ \E id \in dialogGets : ShowNoteDialogCallback(id)
  \/ \E id \in dialogs, note \in Notes : SaveNote(id, note)
  \/ \E id \in dialogs : CancelNote(id)
  \/ DeleteHighlight(TRUE)
  \/ DeleteGet
  \/ DeleteSet
  \/ \E id \in StoredIds(store) : ToggleFavorite(id)
  \/ \E id \in StoredIds(store), note \in Notes : UpdateNote(id, note)
  \/ \E id \in StoredIds(store) : HandleDelete(id)
  \/ HandleClearAll
  \/ \E e \in edits : EditGet(e)
  \/ \E e \in edits : EditSet(e)

SpecStore == InitStore /\ [][StoreNext]_vars

\* the storage collaborator fails. chrome.storage reports a failure by setting
\* chrome.runtime.lastError and calling the callback without a result; no
\* callback of the script reads lastError.
\* The read of createHighlightFromText fails: result.highlights throws inside
\* the callback, outside the try of the function, and the chain ends
CaptureGetFails ==
  /\ capture.stage = "get"
  /\ capture' = NoCapture
  /\ UNCHANGED <<page, doc, readyState, store, highlights, loadPending, listeners, menu,
                 menuGet, popup, del, nextId, reloads, lastPass, hash, pollers>>
  /\ UNCHANGED noteVars

\* the write of createHighlightFromText fails: nothing is stored and the
\* callback runs as after a write that succeeded
CaptureSetFails ==
  /\ capture.stage = "set"
  /\ store' = store
  /\ highlights' = Append(highlights, capture.h)
  /\ doc' = ApplyHighlight(doc, RangeOfChars(doc, capture.first, capture.last),
                           capture.h.id)
  /\ capture' = NoCapture
  /\ UNCHANGED <<page, readyState, loadPending, listeners, menu, menuGet, popup, del,
                 nextId, reloads, lastPass, hash, pollers>>
  /\ noteTimers' = noteTimers \cup {capture.h.id}
  /\ UNCHANGED <<edits, dialogs, dialogGets>>

\* the write of deleteHighlight fails
DeleteSetFails ==
  /\ del.stage = "set"
  /\ store' = store
  /\ highlights' = WithoutId(highlights, del.id)
  /\ doc' = RemoveWrapper(doc, del.id)
  /\ del' = NoDelete
  /\ UNCHANGED <<page, readyState, loadPending, listeners, menu, capture, menuGet, popup,
                 nextId, reloads, lastPass, hash, pollers>>
  /\ UNCHANGED noteVars

\* the write of saveHighlightDetails fails
EditSetFails(e) ==
  /\ e \in edits
  /\ e.stage = "set"
  /\ store' = store
  /\ highlights' = IF e.ctx = "page" THEN ApplyEdit(e, highlights) ELSE highlights
  /\ edits' = (edits \ {e}) \cup {[e EXCEPT !.stage = "done", !.all = <<>>]}
  /\ UNCHANGED <<pageVars, menu, popup, dialogs, dialogGets, noteTimers>>

\* capture, edit and delete on the page over a store that can fail
FailureNext ==
  \/ LoadHighlightsCallback
  \/ \E first \in 1..NumChars(doc) : \E last \in first..NumChars(doc) :
       \E more \in BOOLEAN : ShowSelectionMenu(first, last, more)
  \/ CreateHighlightFromText
  \/ CaptureGet
  \/ CaptureGetFails
  \/ CaptureSet
  \/ CaptureSetFails
  \/ \E id \in noteTimers : NoteTimerFires(id)
  \/ \E id \in WrapperIds(doc) : WrapperClick(id)
  \/ ShowHighlightMenuCallback
  \/ EditNoteButton
  \/ \E id \in dialogGets : ShowNoteDialogCallback(id)
  \/ \E id \in dialogs, note \in Notes : SaveNote(id, note)
  \/ DeleteHighlight(TRUE)
  \/ DeleteGet
  \/ DeleteSet
  \/ DeleteSetFails
  \/ \E e \in edits : EditGet(e)
  \/ \E e \in edits : EditSet(e)
  \/ \E e \in edits : EditSetFails(e)

SpecFailure == InitStore /\ [][FailureNext]_vars

\* wrapper clicks on a page whose address may carry a fragment
ScopeNext ==
  \/ ScrollNext
  \/ \E id \in WrapperIds(doc) : WrapperClick(id)
  \/ ShowHighlightMenuCallback

SpecScope == InitScroll /\ [][ScopeNext]_vars

\* ------------------------------------------------------------- properties

\* every character of the document, skipped text nodes included
AllText(d) == Str(SelectSeq(d, IsCh))
\* the linear text the restoration linearizer builds
LinearText(d) == FullTextOf(RestoreRuns(d))
\* the characters inside the first wrapper with the id
WrapperText(d, id) ==
  Str(SelectSeq(SubSeq(d, QueryWrapper(d, id), MatchingClose(d, QueryWrapper(d, id))),
                IsCh))
\* the offset in the linear text of a boundary point inside an accepted run
LinearOffset(d, g) ==
  LET runs == RestoreRuns(d)
      i == CHOOSE x \in 1..Len(runs) :
             runs[x].node.from - 1 <= g /\ g <= runs[x].node.to
  IN runs[i].startOffset + (g - (runs[i].node.from - 1))
\* batch without its i-th Anchor
DropAt(batch, i) == SubSeq(batch, 1, i - 1) \o SubSeq(batch, i + 1, Len(batch))
\* the Anchor's text occurs nowhere: not in the linear text, or not among the
\* characters of the document
Absent(d, h) ==
  IndexOf(LinearText(d), h.text) = -1 \/ IndexOf(AllText(d), h.text) = -1

\* C3 - not-found is non-fatal: in a restoreHighlights pass, an Anchor whose
\* text is absent from the document gets no range and no wrapper and counts
\* as one failure, and the pass does to the other Anchors exactly what it does
\* without the absent one, whatever its place in the batch
C3_NotFoundNonFatal ==
  lastPass.ran =>
    \A i \in 1..Len(lastPass.batch) :
      LET h == lastPass.batch[i]
          rest == RestoreHighlights(lastPass.pre, DropAt(lastPass.batch, i))
      IN (Absent(lastPass.pre, h) /\ QueryWrapper(lastPass.pre, h.id) = 0) =>
           /\ lastPass.ranges[i] = NoRange
           /\ QueryWrapper(lastPass.doc, h.id) = 0
           /\ lastPass.doc = rest.doc
           /\ lastPass.successCount = rest.successCount
           /\ lastPass.failCount = rest.failCount + 1
           /\ lastPass.successCount + lastPass.failCount = Len(lastPass.batch)

\* a pass over three Anchors, the first one absent, the two others wrapped
C3_Witness ==
  /\ lastPass.ran
  /\ Len(lastPass.batch) = 3
  /\ Absent(lastPass.pre, lastPass.batch[1])
  /\ lastPass.successCount = 2
  /\ lastPass.failCount = 1
  /\ QueryWrapper(lastPass.doc, lastPass.batch[2].id) # 0
  /\ QueryWrapper(lastPass.doc, lastPass.batch[3].id) # 0

\* C4 - idempotence: the document never holds two wrapper elements with the
\* same highlight id
C4_OneWrapperPerId == \A id \in WrapperIds(doc) : WrapperCount(doc, id) <= 1

\* only createHighlightFromText has put wrappers into the document since it
\* was loaded: restoration has wrapped nothing
OnlyCaptures == lastPass.successCount = 0

\* C5 - round trip: after capture, wrap and removal of the wrapper, with no
\* other highlight in the document, the linear text of the document is
\* character for character the one it was before the capture
C5_RoundTripLinearText ==
  (OnlyCaptures /\ WrapperIds(doc) = {}) => LinearText(doc) = LinearText(page)

\* the wrapper with the id was made by the fallback over two elements: it
\* holds the pieces of two elements
CrossBoundary(d, id) ==
  /\ QueryWrapper(d, id) # 0
  /\ Len(SelectSeq(SubSeq(d, QueryWrapper(d, id) + 1,
                          MatchingClose(d, QueryWrapper(d, id)) - 1),
                   LAMBDA t : t.k = "open")) >= 2

\* C6 - cross-boundary wrap: a capture whose range the in-place wrap cannot
\* take leaves exactly one wrapper with the new id, and the removal of a
\* wrapper that spans two elements, the only highlight in the document,
\* gives back the original elements and text
C6_CrossBoundaryRoundTrip ==
  [][/\ (/\ capture.stage = "set"
          /\ capture'.stage = "idle"
          /\ reloads' = reloads
          /\ SurroundThrows(doc, RangeOfChars(doc, capture.first, capture.last))) =>
            WrapperCount(doc', capture.h.id) = 1
     /\ (/\ del.stage = "set"
          /\ del'.stage = "idle"
          /\ reloads' = reloads
          /\ OnlyCaptures
          /\ CrossBoundary(doc, del.id)
          /\ WrapperIds(doc') = {}) => doc' = page]_vars

\* the text between the boundary points that the match offset m maps to
Materialized(d, text, m) ==
  RangeToString(d, [s |-> StartPoint(RestoreRuns(d), m),
                    e |-> EndPoint(RestoreRuns(d), m + Len(text))])

\* the i-th Anchor of the last pass went through findTextWithContext
Searched(i) == QueryWrapper(lastPass.docs[i], lastPass.batch[i].id) = 0

\* the context pattern of the i-th Anchor of the last pass applies: a context
\* field is non-empty and textBefore + text + textAfter occurs
PatternIndex(i) ==
  LET h == lastPass.batch[i]
  IN IF h.textBefore = <<>> /\ h.textAfter = <<>> THEN 0 - 1
     ELSE IndexOf(LinearText(lastPass.docs[i]),
                  h.textBefore \o h.text \o h.textAfter)

\* C1 - context precedence: when a context field is non-empty and
\* textBefore + text + textAfter occurs in the linear text, leftmost at p, the
\* match offset is p + length(textBefore), a returned range starts there, and
\* no range is returned only when the text materialized there differs
C1_ContextPrecedence ==
  lastPass.ran =>
    \A i \in 1..Len(lastPass.batch) :
      LET h == lastPass.batch[i]
          d == lastPass.docs[i]
          m == PatternIndex(i) + Len(h.textBefore)
      IN (Searched(i) /\ PatternIndex(i) # -1) =>
           /\ SearchIndex(LinearText(d), h.text, h.textBefore, h.textAfter) = m
           /\ lastPass.ranges[i] # NoRange =>
                LinearOffset(d, lastPass.ranges[i].s) = m
           /\ lastPass.ranges[i] = NoRange => Materialized(d, h.text, m) # h.text

\* an Anchor resolved to its context-matching occurrence, behind an earlier
\* bare occurrence of its text
C1_Witness ==
  /\ lastPass.ran
  /\ \E i \in 1..Len(lastPass.batch) :
       /\ Searched(i)
       /\ PatternIndex(i) # -1
       /\ IndexOf(LinearText(lastPass.docs[i]), lastPass.batch[i].text)
            < PatternIndex(i) + Len(lastPass.batch[i].textBefore)
       /\ lastPass.ranges[i] # NoRange
       /\ LinearOffset(lastPass.docs[i], lastPass.ranges[i].s)
            = PatternIndex(i) + Len(lastPass.batch[i].textBefore)

\* the i-th Anchor of the last pass falls back to its bare text: the context
\* pattern does not apply and the text occurs in the linear text
FallsBack(i) ==
  /\ Searched(i)
  /\ PatternIndex(i) = -1
  /\ IndexOf(LinearText(lastPass.docs[i]), lastPass.batch[i].text) # -1

C10_PostMatchVerification ==
  lastPass.ran =>
    \A i \in 1..Len(lastPass.batch) :
      LET h == lastPass.batch[i]
          d == lastPass.docs[i]
          r == lastPass.ranges[i]
          m == SearchIndex(LinearText(d), h.text, h.textBefore, h.textAfter)
      IN /\ r # NoRange =>
              /\ RangeToString(d, r) = h.text
              /\ WrapperText(ApplyHighlight(d, r, h.id), h.id) = h.text
              /\ WrapperText(lastPass.doc, h.id) = h.text
         /\ (Searched(i) /\ m # -1 /\ Materialized(d, h.text, m) # h.text) =>
              /\ r = NoRange
              /\ QueryWrapper(lastPass.doc, h.id) = 0

\* an Anchor whose text is found in the linear text, materializes differently
\* and gets no wrapper
C10_Witness ==
  /\ lastPass.ran
  /\ \E i \in 1..Len(lastPass.batch) :
       LET h == lastPass.batch[i]
           d == lastPass.docs[i]
           m == SearchIndex(LinearText(d), h.text, h.textBefore, h.textAfter)
       IN /\ Searched(i)
          /\ m # -1
          /\ Materialized(d, h.text, m) # h.text
          /\ lastPass.ranges[i] = NoRange
          /\ QueryWrapper(lastPass.doc, h.id) = 0

\* C7 - scroll retry exhaustion: a poller that never saw its wrapper gives up
\* at its attempt number MaxAttempts, without having scrolled, and the step
\* in which it gives up clears the fragment and touches nothing else
C7_ExhaustionClearsFragment ==
  [][\A i \in 1..Len(pollers) :
       /\ (pollers[i].phase = "wait" /\ pollers'[i].phase = "exhausted") =>
            /\ QueryWrapper(doc, pollers[i].id) = 0
            /\ pollers'[i].attempts = MaxAttempts
            /\ pollers'[i].scrolls = 0
            /\ hash' = 0
            /\ doc' = doc
       /\ (pollers'[i].attempts = MaxAttempts /\ pollers'[i].scrolls = 0) =>
            pollers'[i].phase = "exhausted"
       /\ pollers[i].phase = "exhausted" => pollers'[i] = pollers[i]]_vars

\* a poller gave up after MaxAttempts attempts, its wrapper still missing,
\* and the fragment is gone
C7_Witness ==
  \E i \in 1..Len(pollers) :
    /\ pollers[i].phase = "exhausted"
    /\ pollers[i].attempts = MaxAttempts
    /\ pollers[i].scrolls = 0
    /\ QueryWrapper(doc, pollers[i].id) = 0
    /\ hash = 0
    /\ ~loadPending

\* C8 - the retry loop is bounded: a poller never makes more than MaxAttempts
\* attempts, it stays scheduled after an attempt only when that attempt found
\* no wrapper and was below the cap, and every poller stops polling, by
\* success or by exhaustion
C8_RetryLoopBounded ==
  /\ [](\A i \in 1..Len(pollers) :
          /\ pollers[i].attempts <= MaxAttempts
          /\ pollers[i].phase = "wait" => pollers[i].attempts < MaxAttempts)
  /\ [][\A i \in 1..Len(pollers) :
          pollers'[i].attempts # pollers[i].attempts =>
            /\ pollers[i].phase = "wait"
            /\ pollers'[i].attempts = pollers[i].attempts + 1
            /\ pollers'[i].phase = "wait" =>
                 /\ QueryWrapper(doc, pollers[i].id) = 0
                 /\ pollers'[i].attempts < MaxAttempts]_vars
  /\ \A i \in 1..MaxTriggers :
       (i <= Len(pollers)) ~> (i <= Len(pollers) /\ pollers[i].phase # "wait")

\* a poller has stopped by success at its last allowed attempt, after
\* MaxAttempts - 1 attempts that found nothing
C8_Witness ==
  \E i \in 1..Len(pollers) :
    /\ pollers[i].phase \in {"clean", "done"}
    /\ pollers[i].attempts = MaxAttempts
    /\ pollers[i].scrolls = 1

\* C9 - scroll success: an attempt made while the wrapper is in the document
\* finds it, scrolls and stops polling; no poller scrolls twice; a poller that
\* waits while the wrapper is there does scroll, and after a scroll the
\* fragment is eventually cleared
C9_ScrollSuccess ==
  /\ [](\A i \in 1..Len(pollers) : pollers[i].scrolls <= 1)
  /\ [][\A i \in 1..Len(pollers) :
          (/\ pollers[i].phase = "wait"
           /\ QueryWrapper(doc, pollers[i].id) # 0
           /\ pollers'[i] # pollers[i]) =>
            /\ pollers'[i].phase = "clean"
            /\ pollers'[i].scrolls = 1
            /\ pollers'[i].attempts = pollers[i].attempts + 1]_vars
  /\ \A i \in 1..MaxTriggers :
       /\ (/\ i <= Len(pollers)
           /\ pollers[i].phase = "wait"
           /\ QueryWrapper(doc, pollers[i].id) # 0)
            ~> (i <= Len(pollers) /\ pollers[i].scrolls = 1)
       /\ (i <= Len(pollers) /\ pollers[i].phase = "clean") ~> (hash = 0)

\* a poller that started before restoration, missed the wrapper at its first
\* attempt, found it later, scrolled once, and the fragment is gone
C9_Witness ==
  \E i \in 1..Len(pollers) :
    /\ lastPass.ran
    /\ pollers[i].phase = "done"
    /\ pollers[i].attempts > 1
    /\ pollers[i].scrolls = 1
    /\ QueryWrapper(doc, pollers[i].id) # 0
    /\ hash = 0

\* the i-th Anchor of the last pass was searched for and its text is not in
\* the linear text
NotFound(i) ==
  /\ Searched(i)
  /\ SearchIndex(LinearText(lastPass.docs[i]), lastPass.batch[i].text,
                 lastPass.batch[i].textBefore, lastPass.batch[i].textAfter) = -1

\* the i-th Anchor of the last pass was found in the linear text and the text
\* materialized there differs
Mismatch(i) ==
  LET h == lastPass.batch[i]
      m == SearchIndex(LinearText(lastPass.docs[i]), h.text, h.textBefore,
                       h.textAfter)
  IN Searched(i) /\ m # -1 /\ Materialized(lastPass.docs[i], h.text, m) # h.text

\* C11 - batch isolation: a restoreHighlights pass tries every Anchor of its
\* batch whatever the others did, counts each one exactly once as a success
\* or as a failure, and every success has its wrapper
C11_BatchIsolation ==
  lastPass.ran =>
    /\ Len(lastPass.ranges) = Len(lastPass.batch)
    /\ lastPass.successCount + lastPass.failCount = Len(lastPass.batch)
    /\ lastPass.successCount
         = Cardinality({i \in 1..Len(lastPass.ranges) : lastPass.ranges[i] # NoRange})
    /\ \A i \in 1..Len(lastPass.ranges) :
         /\ (NotFound(i) \/ Mismatch(i)) => lastPass.ranges[i] = NoRange
         /\ lastPass.ranges[i] # NoRange =>
              QueryWrapper(lastPass.doc, lastPass.batch[i].id) # 0

\* a pass of three: the first Anchor is not found, the second is found and
\* mismatches, the third is wrapped
C11_Witness ==
  /\ lastPass.ran
  /\ Len(lastPass.batch) = 3
  /\ NotFound(1)
  /\ Mismatch(2)
  /\ lastPass.ranges[3] # NoRange
  /\ lastPass.successCount = 1
  /\ lastPass.failCount = 2

\* C12 - no clobbered edits: whatever the interleaving of store updates that
\* re-read the store before they write (so handleClearAll apart), each write
\* leaves the store as it was just before the write with the writer's own
\* update applied: no other update is lost or undone
C12_NoClobberedEdits ==
  [][(\A x \in edits : x.op # "clear") =>
       /\ (capture.stage = "set" /\ capture'.stage = "idle" /\ reloads' = reloads) =>
            store' = Append(store, capture.h)
       /\ (del.stage = "set" /\ del'.stage = "idle" /\ reloads' = reloads) =>
            store' = WithoutId(store, del.id)
       /\ \A e \in edits :
            (e.stage = "set" /\ e \notin edits') => store' = ApplyEdit(e, store)]_vars

\* C13 - document scoping: the callback of showHighlightMenu selects the
\* Anchors of the document as loadHighlights does, by the address without its
\* fragment, so the click on the wrapper of a stored Anchor of this document
\* opens its popup whatever fragment the address carries
C13_ScopingIdentical ==
  [][(menuGet # 0 /\ menuGet' = 0 /\ reloads' = reloads) =>
       /\ highlights' = ForThisPage(store)
       /\ menuGet \in StoredIds(ForThisPage(store)) => popup' = menuGet]_vars

\* C14 - capture degradation: when the start container of the range is not
\* among the runs, createHighlightFromText still produces the Anchor from the
\* text, with both context fields empty
C14_DegradedContextEmpty ==
  [][(/\ capture.stage = "idle"
      /\ capture'.stage = "get"
      /\ ~StartContainerLocated(doc, RangeOfChars(doc, menu.first, menu.last))) =>
       /\ capture'.h.text = menu.text
       /\ capture'.h.textBefore = <<>>
       /\ capture'.h.textAfter = <<>>]_vars

\* C15 - no Anchor with empty exact text is ever stored, cached or on its
\* way to the store: a colour button pressed for a range without text starts
\* no capture, and no update of the page or of the popup empties a text
C15_NoEmptyText ==
  /\ \A i \in 1..Len(store) : store[i].text # <<>>
  /\ \A i \in 1..Len(highlights) : highlights[i].text # <<>>
  /\ capture.stage # "idle" =>
       /\ capture.h.text # <<>>
       /\ \A i \in 1..Len(capture.all) : capture.all[i].text # <<>>
  /\ \A e \in edits : \A i \in 1..Len(e.all) : e.all[i].text # <<>>

\* a menu opened for a range without text while an Anchor is stored and
\* an update of the popup has landed
C15_Witness ==
  /\ menu.open
  /\ menu.text = <<>>
  /\ Len(store) > 0
  /\ \E e \in edits : e.stage = "done"

\* the store under the same updates on a page with a whitespace-only text node
InitText ==
  /\ hash = 0
  /\ Started(PageSpaced, "complete", hash)
  /\ store = <<AnchorB>>
  /\ nextId = FirstFreshId
  /\ reloads = 0
  /\ edits = {}

SpecText == InitText /\ [][StoreNext]_vars

\* what createHighlightFromText computes on a page whose linear text is longer
\* than the context window, for selections of at most MaxSelect characters:
\* "ab ab ab ..." with its first space alone in an element, so that one text
\* node is white space only
MaxPage == 57
MaxSelect == 2

LongText == [i \in 1..MaxPage |->
               Ch(IF i % 3 = 0 THEN " " ELSE IF i % 3 = 1 THEN "a" ELSE "b")]

PageLong ==
  SubSeq(LongText, 1, 2) \o <<Open("b")>> \o SubSeq(LongText, 3, 3)
    \o <<Close("b")>> \o SubSeq(LongText, 4, MaxPage)

InitContext ==
  /\ hash = 0
  /\ Started(PageLong, "complete", hash)
  /\ store = <<>>
  /\ nextId = FirstFreshId
  /\ reloads = 0
  /\ edits = {}

ContextNext ==
  \/ LoadHighlightsCallback
  \/ \E first \in 1..NumChars(doc) :
       \E last \in first..Min(first + MaxSelect - 1, NumChars(doc)) :
         ShowSelectionMenu(first, last, FALSE)
  \/ CreateHighlightFromText

SpecContext == InitContext /\ [][ContextNext]_vars

\* the k characters of str that follow offset from; none when k < 1
Window(str, from, k) == [i \in 1..k |-> str[from + i]]

RunsOf(i) == RestoreRuns(lastPass.docs[i])
TargetStart(i) ==
  LET h == lastPass.batch[i]
  IN SearchIndex(LinearText(lastPass.docs[i]), h.text, h.textBefore, h.textAfter)
TargetEnd(i) == TargetStart(i) + Len(lastPass.batch[i].text)

\* the i-th Anchor of the last pass got a range whose end offset is the
\* boundary between the runs k and k + 1
EndsBetween(i, k) ==
  /\ Searched(i)
  /\ lastPass.ranges[i] # NoRange
  /\ k < Len(RunsOf(i))
  /\ RunsOf(i)[k].endOffset = TargetEnd(i)
  /\ RunsOf(i)[k + 1].startOffset = TargetEnd(i)

\* the start of a returned range is in the run whose [start, end) holds the
\* match offset
StartInHalfOpenRun(i) ==
  (Searched(i) /\ lastPass.ranges[i] # NoRange) =>
    \E k \in 1..Len(RunsOf(i)) :
      /\ RunsOf(i)[k].startOffset <= TargetStart(i)
      /\ TargetStart(i) < RunsOf(i)[k].endOffset
      /\ lastPass.ranges[i].s
           = GapOf(RunsOf(i)[k].node, TargetStart(i) - RunsOf(i)[k].startOffset)

\* C17 as stated - materializer end boundary: an end offset on the boundary
\* between two runs is mapped to local offset 0 of the following run, and the
\* start offset to the run whose [start, end) interval contains it
C17_EndAtFollowingRun ==
  lastPass.ran =>
    \A i \in 1..Len(lastPass.batch) :
      /\ StartInHalfOpenRun(i)
      /\ \A k \in 1..Len(RunsOf(i)) :
           EndsBetween(i, k) =>
             lastPass.ranges[i].e = GapOf(RunsOf(i)[k + 1].node, 0)

\* C17 amended - an end offset on the boundary between two runs is mapped to
\* the end of the preceding run, the run whose (start, end] interval contains
\* it; the start offset is mapped to the run whose [start, end) contains it
C17_EndAtPrecedingRun ==
  lastPass.ran =>
    \A i \in 1..Len(lastPass.batch) :
      /\ StartInHalfOpenRun(i)
      /\ \A k \in 1..Len(RunsOf(i)) :
           EndsBetween(i, k) =>
             lastPass.ranges[i].e
               = GapOf(RunsOf(i)[k].node, Len(RunsOf(i)[k].text))

\* a range returned whose end offset is the boundary between two runs
C17_Witness ==
  /\ lastPass.ran
  /\ \E i \in 1..Len(lastPass.batch) : \E k \in 1..Len(RunsOf(i)) : EndsBetween(i, k)

\* C18 - materializer guarantee: for every span the resolver matched, the
\* range built from the two mapped boundary points has as its string the
\* linear text of the span, also when the span crosses runs separated by
\* text nodes the linearizer skipped
C18_MaterializerGuarantee ==
  lastPass.ran =>
    \A i \in 1..Len(lastPass.batch) :
      (Searched(i) /\ TargetStart(i) # -1) =>
        Materialized(lastPass.docs[i], lastPass.batch[i].text, TargetStart(i))
          = Substring(LinearText(lastPass.docs[i]), TargetStart(i), TargetEnd(i))

\* C19 - length invariance under wrapping: the linear text of the restoration
\* linearizer right after applyHighlight inserted a wrapper is the linear text
\* right before
C19_LengthInvariance ==
  lastPass.ran =>
    \A i \in 1..Len(lastPass.batch) :
      lastPass.ranges[i] # NoRange =>
        LinearText(ApplyHighlight(lastPass.docs[i], lastPass.ranges[i],
                                  lastPass.batch[i].id))
          = LinearText(lastPass.docs[i])

\* the orders a batch of n Anchors can be restored in
Orders(n) == {p \in [1..n -> 1..n] : \A i, j \in 1..n : p[i] = p[j] => i = j}

\* the wrapped spans of a document: each wrapper's id with the characters of
\* the document it holds, from the from-th exclusive to the to-th inclusive
WrappedSpans(d) ==
  {[id |-> d[i].id,
    from |-> Len(SelectSeq(SubSeq(d, 1, i), IsCh)),
    to |-> Len(SelectSeq(SubSeq(d, 1, MatchingClose(d, i)), IsCh))] :
     i \in {j \in 1..Len(d) : IsWrapperOpen(d[j])}}

\* C20 - order insensitivity: restoring the batch of a pass in any other
\* order leaves the same wrapped spans, each with the same id
C20_OrderInsensitivity ==
  lastPass.ran =>
    \A p \in Orders(Len(lastPass.batch)) :
      WrappedSpans(RestoreHighlights(lastPass.pre,
                     [i \in 1..Len(lastPass.batch) |-> lastPass.batch[p[i]]]).doc)
        = WrappedSpans(lastPass.doc)

\* C21 - restoration lifecycle: a pass starts only after the Anchors have been
\* loaded from the store and when the document is no longer loading; it
\* attempts each loaded Anchor of the document exactly once, in stored order
C21_RestorationLifecycle ==
  [][(lastPass' # lastPass /\ lastPass'.ran) =>
       /\ ~loadPending'
       /\ readyState' # "loading"
       /\ lastPass'.batch = highlights'
       /\ loadPending => lastPass'.batch = ForThisPage(store)
       /\ Len(lastPass'.docs) = Len(lastPass'.batch)
       /\ Len(lastPass'.ranges) = Len(lastPass'.batch)]_vars

\* a pass over several loaded Anchors, one of them restored
C21_Witness ==
  /\ lastPass.ran
  /\ Len(lastPass.batch) > 1
  /\ listeners = {}
  /\ readyState = "complete"
  /\ reloads = 0
  /\ \E i \in 1..Len(lastPass.ranges) : lastPass.ranges[i] # NoRange

\* the run list is contiguous from offset 0 and the linear text is the run
\* texts, each the text of its node, in document order
Contiguous(d, runs) ==
  /\ runs # <<>> => runs[1].startOffset = 0
  /\ \A i \in 1..Len(runs) :
       /\ runs[i].endOffset = runs[i].startOffset + Len(runs[i].text)
       /\ runs[i].text = NodeText(d, runs[i].node)
       /\ i < Len(runs) =>
            /\ runs[i].endOffset = runs[i + 1].startOffset
            /\ runs[i].node.to < runs[i + 1].node.from
       /\ Substring(FullTextOf(runs), runs[i].startOffset, runs[i].endOffset)
            = runs[i].text
  /\ Len(FullTextOf(runs)) = (IF runs = <<>> THEN 0 ELSE runs[Len(runs)].endOffset)

\* C22 - linearizer invariant: in the run lists of both linearizers the first
\* run starts at offset 0, each run ends at its start plus its text length,
\* which is the start of the next run, and the linear text is the run texts
\* concatenated in document order
C22_LinearizerInvariant ==
  /\ Contiguous(doc, RestoreRuns(doc))
  /\ Contiguous(doc, CaptureRuns(doc))

\* a document with a wrapper whose restoration run list has two runs and
\* whose capture run list has more
C22_Witness ==
  /\ WrapperIds(doc) # {}
  /\ Len(RestoreRuns(doc)) > 1
  /\ Len(CaptureRuns(doc)) > Len(RestoreRuns(doc))

\* C23 - capture and resolution use the same linear model: in every document
\* state, wrappers present or not, the run list and the linear text that
\* createHighlightFromText builds are those that findTextWithContext builds
C23_SameLinearModel ==
  /\ CaptureRuns(doc) = RestoreRuns(doc)
  /\ FullTextOf(CaptureRuns(doc)) = LinearText(doc)

\* C24 - resolution is read-only on Anchors: a restoration pass, from the
\* load to the last applyHighlight, writes nothing to the store and leaves
\* every Anchor it handles as the store holds it, whether it is restored or not
C24_ResolutionReadOnly ==
  [][(lastPass' # lastPass /\ lastPass'.ran) =>
       /\ store' = store
       /\ highlights' = (IF loadPending THEN ForThisPage(store) ELSE highlights)
       /\ lastPass'.batch = highlights'
       /\ UNCHANGED <<capture, del, edits>>]_vars

\* a pass after which one stored Anchor is restored and another is not
C24_Witness ==
  /\ lastPass.ran
  /\ lastPass.successCount > 0
  /\ lastPass.failCount > 0
  /\ lastPass.batch = store

\* the fields of an Anchor that no annotation edit may touch
Core(h) ==
  [id |-> h.id, text |-> h.text, textBefore |-> h.textBefore,
   textAfter |-> h.textAfter, url |-> h.url,
   startOffset |-> h.startOffset, endOffset |-> h.endOffset]

\* the updates of saveHighlightDetails, updateNote and toggleFavorite
Annotation(e) == e.op \in {"details", "note", "favorite"}

\* C25 - annotation edits are framed: the write of saveHighlightDetails,
\* updateNote or toggleFavorite leaves the store as it was, but for the note
\* and favorite fields of the Anchor with the given id; when the read finds
\* no Anchor with the id, nothing is written
C25_AnnotationFramed ==
  [][\A e \in edits : Annotation(e) =>
       /\ (e.stage = "set" /\ e \notin edits') =>
            /\ Len(store') = Len(store)
            /\ \A i \in 1..Len(store) :
                 /\ Core(store'[i]) = Core(store[i])
                 /\ store[i].id # e.id => store'[i] = store[i]
       /\ (e.stage = "get" /\ e \notin edits' /\ e.id \notin StoredIds(store)) =>
            /\ store' = store
            /\ \A x \in edits' \ edits : x.stage = "done"]_vars

\* C26 - delete: when a confirmed deleteHighlight(id) completes, store and
\* cache hold no Anchor with the id and the document no wrapper with it, every
\* other Anchor and wrapper being as before; a declined confirmation leaves
\* store, cache and document unchanged
C26_DeleteEffect ==
  [][/\ (del.stage = "set" /\ del'.stage = "idle" /\ reloads' = reloads) =>
          /\ store' = WithoutId(store, del.id)
          /\ highlights' = WithoutId(highlights, del.id)
          /\ QueryWrapper(doc', del.id) = 0
          /\ WrappedSpans(doc') = {w \in WrappedSpans(doc) : w.id # del.id}
          /\ AllText(doc') = AllText(doc)
     /\ (popup # 0 /\ popup' = 0 /\ del' = del /\ reloads' = reloads) =>
          UNCHANGED <<store, highlights, doc>>]_vars

\* C27: a restoration pass shows the completion notification if and only if
\* at least one highlight was restored in it, and the Anchors that fail
\* surface no notification of their own
C27_RestorationNotification ==
  lastPass.ran =>
    /\ lastPass.toast <=>
         \E i \in 1..Len(lastPass.ranges) :
           /\ lastPass.ranges[i] # NoRange
           /\ ~WrapThrows(lastPass.docs[i], lastPass.ranges[i])
           /\ lastPass.ranges[i].s # lastPass.ranges[i].e
    /\ lastPass.warnings = 0

\* C28: when wrapping throws inside applyHighlight the error is caught there:
\* one warning is shown for it, restoreHighlights sees a normal return (the
\* Anchor is counted like one that was wrapped, never in its own catch) and
\* the remaining Anchors of the batch are all processed
C28_WrapperFailureContained ==
  lastPass.ran =>
    /\ Len(lastPass.ranges) = Len(lastPass.batch)
    /\ lastPass.successCount + lastPass.failCount = Len(lastPass.batch)
    /\ lastPass.successCount =
         Cardinality({i \in 1..Len(lastPass.ranges) : lastPass.ranges[i] # NoRange})
    /\ lastPass.warnings =
         Cardinality({i \in 1..Len(lastPass.ranges) :
                        WrapThrows(lastPass.docs[i], lastPass.ranges[i])})
    /\ \A i \in 1..Len(lastPass.batch) :
         lastPass.ranges[i] = CreateRangeFromHighlight(lastPass.docs[i], lastPass.batch[i])

\* a pass whose first Anchor made wrapping throw and whose second Anchor was
\* wrapped after it
C28_Witness ==
  /\ lastPass.ran
  /\ Len(lastPass.batch) > 1
  /\ WrapThrows(lastPass.docs[1], lastPass.ranges[1])
  /\ lastPass.warnings = 1
  /\ \E i \in 2..Len(lastPass.batch) :
       /\ lastPass.ranges[i] # NoRange
       /\ lastPass.batch[i].id \in WrapperIds(lastPass.doc)

\* C29: when a storage read or write of capture, edit or delete fails, the
\* operation does not go on as after a success: the cache, the document and
\* the note timers stay as they were
C29_StoreFailurePropagated ==
  [][/\ (capture.stage = "get" /\ capture' = NoCapture /\ reloads' = reloads) =>
          UNCHANGED <<store, highlights, doc, noteTimers>>
     /\ (capture.stage = "set" /\ capture' = NoCapture /\ reloads' = reloads
           /\ store' # capture.all) =>
          UNCHANGED <<highlights, doc, noteTimers>>
     /\ (del.stage = "set" /\ del' = NoDelete /\ reloads' = reloads
           /\ store' # del.filtered) =>
          UNCHANGED <<highlights, doc>>
     /\ \A e \in edits :
          (e.stage = "set" /\ e \notin edits' /\ store' # e.all) =>
            UNCHANGED highlights]_vars

\* C30: when createHighlightFromText has captured an Anchor from a selection
\* whose start container is a linearized run, resolving that Anchor against
\* the document as it is succeeds through the context pattern and yields the
\* span that starts at the Anchor's startOffset
C30_CaptureThenResolve ==
  [][(capture.stage = "idle" /\ capture'.stage = "get"
        /\ StartContainerLocated(doc, RangeOfChars(doc, menu.first, menu.last))) =>
       LET h == capture'.h
           range == FindTextWithContext(doc, h.text, h.textBefore, h.textAfter)
           patternIndex == IndexOf(LinearText(doc),
                                   h.textBefore \o h.text \o h.textAfter)
       IN /\ patternIndex # -1
          /\ patternIndex + Len(h.textBefore) = h.startOffset
          /\ range # NoRange
          /\ LinearOffset(doc, range.s) = h.startOffset]_vars

\* C31: for every Anchor that createHighlightFromText produces with its start
\* container located among the runs, the capture-time linear text between
\* startOffset and endOffset is the Anchor's text, and
\* 0 <= startOffset <= endOffset <= length of that linear text
C31_OffsetsDelimitText ==
  [][(capture.stage = "idle" /\ capture'.stage = "get"
        /\ StartContainerLocated(doc, RangeOfChars(doc, menu.first, menu.last))) =>
       LET h == capture'.h
           fullText == FullTextOf(CaptureRuns(doc))
       IN /\ 0 <= h.startOffset
          /\ h.startOffset <= h.endOffset
          /\ h.endOffset <= Len(fullText)
          /\ SubSeq(fullText, h.startOffset + 1, h.endOffset) = h.text]_vars

\* C32: in every state reached by interleaving the page's operations with
\* the extension popup's, every wrapper element of the document carries the
\* id of an Anchor that the store holds, and the wrapper of a capture is
\* inserted only by the step in which its store write completes
C32_WrappersBacked ==
  [][/\ \A id \in WrapperIds(doc') : id \in StoredIds(store')
     /\ (capture.stage # "idle" /\ capture.h.id \in WrapperIds(doc')) =>
          (capture.stage = "set" /\ capture' = NoCapture)]_vars

\* C33: when a restoreHighlights pass completes, successCount is the number
\* of wrapper elements the pass created in the document, also when
\* applyHighlight failed internally for some Anchor
C33_SuccessCountMatches ==
  lastPass.ran =>
    lastPass.successCount
      = Cardinality({i \in 1..Len(lastPass.doc) : IsWrapperOpen(lastPass.doc[i])})
          - Cardinality({i \in 1..Len(lastPass.pre) : IsWrapperOpen(lastPass.pre[i])})

\* C34: in every reachable state at most one overlay (selection menu, note
\* popup or dialog) is present in the document: the elements that
\* closeAllMenus looks for, .mark2link-menu, .mark2link-note-popup and
\* .mark2link-dialog
C34_OverlayExclusivity ==
  (IF menu.open THEN 1 ELSE 0) + (IF popup # 0 THEN 1 ELSE 0) + Cardinality(dialogs)
    <= 1

====
